---- MODULE Spec2Model ----
(***************************************************************************)
(* Position-triggered radar acquisition: the survey loop of Run.py, the    *)
(* controller ApRES_RTK_SAR (updateGPS, updateDistance, triggerApRES,      *)
(* robustBurst) and the burst-start call Radar.burst of apreshttp.py.      *)
(*                                                                         *)
(* Units.  A GPS fix is a point (lat, lon) of a local grid in centimetres; *)
(* haversine(...)*100 rounded to 0 decimals is the rounded distance on     *)
(* that grid.  moveDist is in whole centimetres (the code rounds it), the  *)
(* thresholds min_err and max_err are kept in hundredths of a centimetre   *)
(* so that stepsize*0.01 and stepsize*0.07 stay integral (150 -> 148.5 cm  *)
(* = 14850, 160.5 cm = 16050).  Time is in whole seconds.                  *)
(***************************************************************************)
EXTENDS Integers, Sequences, FiniteSets, TLC

\* ------------------------------------------------------------------ bounds
MaxPnt == 4
MinAttemptSecs == 8

\* ------------------------------------------------------- program constants
TRY_BURST_TIMEOUT == 30
WAIT_LIMIT == 27
VALID_BURST_STATUS_CODE == 303
NoRef == -1
NoCode == 0

\* ---------------------------------------------------------- input domains
StepSizes == {100, 150}
\* positions <<lat, lon>> the GPS may report, on the local centimetre grid
Track == {<<0, 0>>, <<5, 0>>, <<50, 0>>, <<150, 0>>, <<305, 0>>, <<41, 99>>}
QualitySet == {1, 4, 5}
AttemptSecs == {MinAttemptSecs, TRY_BURST_TIMEOUT}
\* the displacement sequence of the band test, in centimetres
Script == <<0, 50, 150, 155, 300>>

MF == "moving forward"
MB == "moving backward"
WP == "well positioned"

VARIABLES
    stepsize, min_err, max_err, RTKsens, DownloadFile,
    lat, lon, iquality,
    refLat, refLon, moveDist, stat, nPnt,
    pc, caller,
    fn, elapsed, attempts,
    burstCalls, busyCount, started, critical, waited, dlReqs, pointInfo,
    lastOutcome, failedAt, exc, said,
    scriptPos, statTrace, fireTrace,
    dlResult, unreported,
    op, phase, call, result, timeoutSeconds, clock, lastStatus, onlyBusy,
    sent, cfgCache,
    issued, device, apiKey, apiRoot, localFile,
    resultsThread, callback, updateCallback, callbackCalls

config == <<stepsize, min_err, max_err, RTKsens, DownloadFile>>
fix == <<lat, lon, iquality>>
ctrl == <<refLat, refLon, moveDist, stat, nPnt>>
rbLocals == <<fn, elapsed, attempts>>
rbObs == <<burstCalls, busyCount, started, critical, waited, dlReqs,
           lastOutcome, failedAt, dlResult>>
hist == <<scriptPos, statTrace, fireTrace>>
\* the survey program (Run.py and the controller)
survey == <<config, fix, ctrl, pc, caller, rbLocals, rbObs, pointInfo, exc,
            said, hist, unreported>>
\* one call of the HTTP client library (apreshttp.py) taken on its own
\* what a call leaves outside the Config object: the requests it issued, the
\* configuration the device holds, the key and root URL of the API object
\* and the destination file of a download
outside == <<issued, device, apiKey, apiRoot, localFile>>
\* a call of Radar.results: the thread __getResults runs in, the callbacks
\* it was handed and the number of times the callback was invoked
polling == <<resultsThread, callback, updateCallback, callbackCalls>>
client == <<op, phase, call, result, timeoutSeconds, clock, lastStatus,
            onlyBusy, sent, cfgCache, outside, polling>>
vars == <<survey, client>>

\* ------------------------------------------------------------ HTTP replies
\* A reply of the radar to one request: the transport either delivers a
\* response or refuses the connection; a response has a status code, may be
\* typed application/json and may carry the error envelope.
Reply(tr, st, ct, ec, em, ok) ==
    [transport |-> tr, status |-> st, ctJson |-> ct,
     errorCode |-> ec, errorMessage |-> em, complete |-> ok]

GetResponses ==
    { Reply("ok", 200, TRUE, NoCode, FALSE, TRUE),
      Reply("ok", 200, TRUE, NoCode, FALSE, FALSE),
      Reply("ok", 200, TRUE, 503, TRUE, FALSE),
      Reply("ok", 200, TRUE, 500, TRUE, FALSE),
      Reply("ok", 404, FALSE, NoCode, FALSE, FALSE),
      Reply("refused", 0, FALSE, NoCode, FALSE, FALSE) }

PostResponses ==
    { Reply("ok", 303, FALSE, NoCode, FALSE, TRUE),
      Reply("ok", 403, TRUE, 403, TRUE, TRUE),
      Reply("ok", 403, FALSE, NoCode, FALSE, TRUE),
      Reply("ok", 403, TRUE, NoCode, TRUE, TRUE),
      Reply("ok", 200, TRUE, 503, TRUE, TRUE),
      Reply("ok", 200, TRUE, 401, TRUE, TRUE),
      Reply("ok", 200, TRUE, 404, TRUE, TRUE),
      Reply("ok", 200, TRUE, 500, TRUE, TRUE),
      Reply("refused", 0, FALSE, NoCode, FALSE, TRUE) }

\* validateResponse without the branch for errorCode 503: a busy envelope
\* is handed back to the caller like an ordinary response
ValidateResponseBusyReturned(r) ==
    IF r.ctJson /\ (r.errorCode # NoCode \/ r.errorMessage)
    THEN IF r.errorCode = NoCode THEN "KeyError"
         ELSE IF r.errorCode \in {401, 404, 500} /\ ~r.errorMessage
         THEN "KeyError"
         ELSE IF r.errorCode = 401 THEN "InvalidAPIKeyException"
         ELSE IF r.errorCode = 404 THEN "NotFoundException"
         ELSE IF r.errorCode = 500 THEN "InternalRadarErrorException"
         ELSE "ok"
    ELSE "ok"

\* APIChild.validateResponse: "ok" or the name of the exception raised.
ValidateResponse(r) ==
    IF r.ctJson /\ (r.errorCode # NoCode \/ r.errorMessage)
    THEN IF r.errorCode = NoCode THEN "KeyError"
         ELSE IF r.errorCode \in {401, 404, 500, 503} /\ ~r.errorMessage
         THEN "KeyError"
         ELSE IF r.errorCode = 401 THEN "InvalidAPIKeyException"
         ELSE IF r.errorCode = 404 THEN "NotFoundException"
         ELSE IF r.errorCode = 500 THEN "InternalRadarErrorException"
         ELSE IF r.errorCode = 503 THEN "RadarBusyException"
         ELSE "ok"
    ELSE "ok"

\* APIChild.getRequest / postRequest: requests.get/post raises its own
\* ConnectionError when the transport fails, else the response is validated.
SendRequest(r) ==
    IF r.transport = "refused" THEN "requests.exceptions.ConnectionError"
    ELSE ValidateResponse(r)

\* Radar.Config.get: GET radar/config, status check, readResponse.
ConfigGet(r) ==
    IF SendRequest(r) # "ok" THEN SendRequest(r)
    ELSE IF r.status # 200 THEN "BadResponseException"
    ELSE IF ~r.complete THEN "BadResponseException"
    ELSE "ok"

\* Radar.burst(filename): the outcome ("ok" or the exception raised) and the
\* route of the request during which it was raised.
RadarBurst(g, p) ==
    IF ConfigGet(g) # "ok"
    THEN [outcome |-> ConfigGet(g), route |-> "radar/config"]
    ELSE IF SendRequest(p) # "ok"
    THEN [outcome |-> SendRequest(p), route |-> "radar/burst"]
    ELSE IF p.status # VALID_BURST_STATUS_CODE
    THEN [outcome |-> "RadarBusyException", route |-> "radar/burst"]
    ELSE [outcome |-> "ok", route |-> "none"]

\* what one call of Radar.burst can do, over the replies of the radar
BurstOutcomes == {RadarBurst(g, p) : g \in GetResponses, p \in PostResponses}

\* ------------------------------------------------------------- controller
Abs(x) == IF x < 0 THEN -x ELSE x

\* round(sqrt(dx*dx + dy*dy)) for naturals dx, dy: the nearest whole number,
\* which lies between the longer leg and the sum of the legs
RoundHypot(dx, dy) ==
    CHOOSE r \in (IF dx > dy THEN dx ELSE dy)..(dx + dy) :
        /\ 4 * (dx * dx + dy * dy) < 4 * r * r + 4 * r + 1
        /\ (r = 0 \/ 4 * (dx * dx + dy * dy) >= 4 * r * r - 4 * r + 1)

\* variant: the distance taken from the grid origin, not from the reference
HaversineFromOrigin(la, lo, rla, rlo) == RoundHypot(Abs(la), Abs(lo))
\* round(haversine((lat, lon), (refLat, refLon), unit=METERS) * 100, 0)
HaversineCm(la, lo, rla, rlo) == RoundHypot(Abs(la - rla), Abs(lo - rlo))

\* Run.py: obj.min_err, obj.max_err (hundredths of a centimetre)
\* variant: the tolerance added instead of subtracted
MinErrOfPlus(s) == 100 * s + s
MinErrOf(s) == 100 * s - s
MaxErrOf(s) == 100 * s + 7 * s

\* the comparisons of triggerApRES, moveDist in cm against hundredths
Above(d, e) == 100 * d > e
Below(d, e) == 100 * d < e
\* variant: the band taken closed
InBandClosed(d, lo, hi) == 100 * d >= lo /\ 100 * d <= hi
InBand(d, lo, hi) == Above(d, lo) /\ Below(d, hi)

\* triggerApRES: the fix-quality guard of line 395
RTKQuality(q) == q = 4 \/ q = 5

\* variant: the sensitivity flag ignored
RTKcondIgnored(sens, q) == TRUE
\* updateDistance: RTKcond
RTKcond(sens, q) == IF sens THEN (q = 4 \/ q = 5) ELSE TRUE

\* variant: the retry loop catching every exception of the client library
RetriedAnyApiError(e) ==
    e \in {"RadarBusyException", "ConnectionError", "InvalidAPIKeyException",
           "NotFoundException", "InternalRadarErrorException",
           "BadResponseException"}
\* robustBurst: the exceptions its retry loop catches.  "ConnectionError" is
\* the builtin of that name (the module imports no other).
Retried(e) == e \in {"RadarBusyException", "ConnectionError"}

\* robustBurst: the budget test of the while condition and of line 143
BudgetSpent(el) == el >= TRY_BURST_TIMEOUT

\* variant: last_burst not reset by a successful start
ElapsedNotReset(el, dt) == el + dt
\* robustBurst line 131: a successful start resets last_burst, so the time
\* measured at line 143 starts again from zero
ElapsedAfterSuccess(el, dt) == 0

\* robustBurst: fn is built once, before the retry loop, from nPnt and the
\* clock; every attempt passes it unchanged.
FileName(n, attempt) == n

\* variant: the destination not looked at
DataDownloadUnchecked(destExists, r) ==
    IF SendRequest(r) # "ok" THEN SendRequest(r) ELSE "ok"
\* Data.download(path): FileExistsError when the destination exists, else the
\* GET of data/download, else the file is written.
DataDownload(destExists, r) ==
    IF destExists THEN "FileExistsError"
    ELSE IF SendRequest(r) # "ok" THEN SendRequest(r)
    ELSE "ok"

\* robustBurst lines 188-204: what the download and the archiving can end in.
\* Data.download is called only when no local file of that name exists; it
\* is followed by os.makedirs, which can fail with OSError.
DownloadOutcomes ==
    {DataDownload(FALSE, r) : r \in GetResponses} \cup {"OSError"}

\* variant: only connection failures caught
DownloadCaughtConnOnly(e) == e = "requests.exceptions.ConnectionError"
\* robustBurst line 201: the bare except catches whatever the block raised
DownloadCaught(e) == TRUE

\* Python's None where a number is expected
NoneVal == -1

\* Radar.Config.__init__: the cached configuration before any get (the
\* antenna fields do not exist yet)
NoConfig ==
    [nAttenuators |-> NoneVal, nSubBursts |-> NoneVal, nAverages |-> NoneVal,
     userData |-> "", rfAttn |-> <<>>, afGain |-> <<>>,
     txAntenna |-> <<>>, rxAntenna |-> <<>>]

\* dict(): the empty data_obj
EmptyData == [k \in {} |-> 0]
\* no POST to radar/config issued
NoPost == [posted |-> FALSE, data |-> EmptyData]

\* ------------------------------------------------------- the API object
\* API.__init__ line 64: the key before setKey is called
DEFAULT_API_KEY == "INVALID"
\* the keys setKey is given
ApiKeys == {DEFAULT_API_KEY, "18052021"}

\* A URL is the tuple of its characters.
HttpScheme == <<"h", "t", "t", "p", ":", "/", "/">>
ApiPart == <<"/", "a", "p", "i", "/">>

\* str.find(pat): the lowest index, counted from 0, at which pat occurs in
\* s, and -1 when it does not occur
Find(s, pat) ==
    LET hits == {i \in 0..(Len(s) - Len(pat)) :
                    SubSeq(s, i + 1, i + Len(pat)) = pat}
    IN IF hits = {} THEN -1 ELSE CHOOSE i \in hits : \A j \in hits : i <= j

\* API.assignRootURL lines 119-132, for a str: text before "http://" is cut,
\* a missing "http://" is put in front, one trailing "/" is removed
AssignRootURL(root) ==
    LET http_idx == Find(root, HttpScheme)
        cut == IF http_idx > 0 THEN SubSeq(root, http_idx + 1, Len(root))
               ELSE IF http_idx = -1 THEN HttpScheme \o root
               ELSE root
    IN IF cut[Len(cut)] = "/" THEN SubSeq(cut, 1, Len(cut) - 1) ELSE cut

\* APIChild.formCompleteURL
FormCompleteURL(root, url_part) == root \o ApiPart \o url_part

\* the most "/" a root passed to assignRootURL ends with
MaxSlashes == 2
RECURSIVE Slashes(_)
Slashes(k) == IF k = 0 THEN <<>> ELSE <<"/">> \o Slashes(k - 1)
\* the strings passed as root: text before the scheme or none, the scheme
\* or none, a host name or none, and trailing slashes
RootStrings ==
    {pre \o sch \o host \o Slashes(k) :
        pre \in {<<>>, <<"x">>}, sch \in {<<>>, HttpScheme},
        host \in {<<>>, <<"r">>}, k \in 0..MaxSlashes}

\* ------------------------------------------------- postRequest, getRequest
\* one request handed to the requests library
Req(method, route, data) == [method |-> method, route |-> route, data |-> data]

\* a data_obj argument: None (given is FALSE) or a dictionary
NoDataObj == [given |-> FALSE, d |-> EmptyData]
DataObjArg(d) == [given |-> TRUE, d |-> d]

\* lines 200-201 and 267-268: debugEnable numbers the request
WithRequestId(d, debug, count) ==
    IF debug THEN [k \in {"requestid"} |-> count] @@ d ELSE d

\* variant: the key of the client replaces the one the caller supplied
WithClientKey(arg, key) == [k \in {"apikey"} |-> key] @@ arg.d
\* postRequest lines 190-196: the key of the client is added unless data_obj
\* holds one
WithApiKey(arg, key) ==
    IF ~arg.given THEN [k \in {"apikey"} |-> key]
    ELSE IF "apikey" \notin DOMAIN arg.d
    THEN arg.d @@ [k \in {"apikey"} |-> key]
    ELSE arg.d

\* the data a POST is sent with, as the count-th request of the API object
PostData(arg, key, debug, count) ==
    WithRequestId(WithApiKey(arg, key), debug, count)

\* getRequest lines 262-268: the parameters a GET is sent with
GetParams(arg, key, debug, count) ==
    WithRequestId(IF ~arg.given THEN EmptyData ELSE arg.d, debug, count)

\* the client library is not called on its own while the survey runs
ClientIdle ==
    /\ op = "none" /\ phase = "none" /\ call = <<>> /\ result = "none"
    /\ timeoutSeconds = 0 /\ clock = 0 /\ lastStatus = "none"
    /\ onlyBusy = FALSE
    /\ sent = NoPost /\ cfgCache = NoConfig
    /\ issued = <<>> /\ device = NoConfig /\ apiKey = DEFAULT_API_KEY
    /\ apiRoot = <<>> /\ localFile = "absent"
    /\ resultsThread = "none" /\ callback = "None"
    /\ updateCallback = "None" /\ callbackCalls = 0

Init ==
    /\ ClientIdle
    /\ dlResult = "none" /\ unreported = FALSE
    /\ stepsize \in StepSizes
    /\ min_err = MinErrOf(stepsize)
    /\ max_err = MaxErrOf(stepsize)
    /\ RTKsens \in BOOLEAN
    /\ DownloadFile \in BOOLEAN
    /\ lat = 0 /\ lon = 0 /\ iquality = 0
    /\ refLat = NoRef /\ refLon = NoRef
    /\ moveDist = 0
    /\ stat = "unset"
    /\ nPnt = 0
    /\ pc = "first_gps"
    /\ caller = "first"
    /\ fn = 0 /\ elapsed = 0 /\ attempts = 0
    /\ burstCalls = <<>> /\ busyCount = 0 /\ started = FALSE
    /\ critical = FALSE /\ waited = 0 /\ dlReqs = 0 /\ pointInfo = 0
    /\ lastOutcome = "none" /\ failedAt = "none"
    /\ exc = "none"
    /\ said = "none"
    /\ scriptPos = 0 /\ statTrace = <<>> /\ fireTrace = <<>>

\* Run.py lines 45-47: updateGPS before the first shot
FirstFix ==
    /\ pc = "first_gps"
    /\ UNCHANGED <<unreported, client>>
    /\ \E pos \in Track, q \in QualitySet :
          /\ lat' = pos[1] /\ lon' = pos[2] /\ iquality' = q
    /\ pc' = "rb_begin"
    /\ UNCHANGED hist
    /\ UNCHANGED <<config, ctrl, caller, rbLocals, rbObs, pointInfo, exc, said>>

\* updateDistance: the displacement it leaves in moveDist
NewMoveDist(sens, q, la, lo, rla, rlo, d) ==
    IF rlo = NoRef /\ rla = NoRef THEN 0
    ELSE IF RTKcond(sens, q) THEN HaversineCm(la, lo, rla, rlo)
    ELSE d

\* triggerApRES up to the call of robustBurst (lines 394-419)
StatAfterForward(s, q, d) ==
    IF RTKQuality(q) /\ s = MF /\ Above(d, max_err) THEN MB ELSE s
\* variant: the undershoot test taken non-strict
StatAfterBackwardAtMin(s, q, d) ==
    IF RTKQuality(q) /\ s = MB /\ 100 * d <= min_err THEN MF ELSE s
StatAfterBackward(s, q, d) ==
    IF RTKQuality(q) /\ s = MB /\ Below(d, min_err) THEN MF ELSE s
\* variant: the band test made for a fix of any quality
FiresAnyQuality(s, q, d) ==
    s # WP /\ InBand(d, min_err, max_err)
Fires(s, q, d) ==
    RTKQuality(q) /\ s # WP /\ InBand(d, min_err, max_err)

\* One pass of the main loop of Run.py (lines 52-58): updateGPS, then
\* updateDistance, then triggerApRES up to its call of robustBurst.  The
\* record of the previous robustBurst call is dropped when the pass begins.
\* scriptPos counts the passes since the first shot whose displacements, all
\* from RTK-quality fixes, were Script[1], Script[2], ...; statTrace and
\* fireTrace hold the state each of them ended in and the displacements at
\* which robustBurst was called (-1 and empty once the run left the script).
Cycle ==
    /\ pc = "gps"
    /\ UNCHANGED <<unreported, client>>
    /\ nPnt < MaxPnt
    /\ \E pos \in Track, q \in QualitySet :
          LET la == pos[1]
              lo == pos[2]
              d == NewMoveDist(RTKsens, q, la, lo, refLat, refLon, moveDist)
              s1 == StatAfterForward(stat, q, d)
              s2 == StatAfterBackward(s1, q, d)
              fire == Fires(s2, q, d)
          IN /\ lat' = la /\ lon' = lo /\ iquality' = q
             /\ IF refLon = NoRef /\ refLat = NoRef
                THEN refLat' = la /\ refLon' = lo
                ELSE UNCHANGED <<refLat, refLon>>
             /\ moveDist' = d
             /\ stat' = IF fire THEN WP ELSE s2
             /\ pc' = IF fire THEN "rb_begin" ELSE "gps"
             /\ caller' = IF fire THEN "trigger" ELSE caller
             /\ said' = IF fire THEN "Stop"
                        ELSE IF s1 # stat THEN "Go Back"
                        ELSE IF s2 # s1 THEN "Go Forward"
                        ELSE "none"
             /\ IF /\ scriptPos >= 0 /\ scriptPos < Len(Script)
                   /\ RTKQuality(q) /\ d = Script[scriptPos + 1]
                THEN /\ scriptPos' = scriptPos + 1
                     /\ statTrace' = Append(statTrace, IF fire THEN WP ELSE s2)
                     /\ fireTrace' = IF fire THEN Append(fireTrace, d)
                                     ELSE fireTrace
                ELSE /\ scriptPos' = -1
                     /\ statTrace' = <<>>
                     /\ fireTrace' = <<>>
    /\ fn' = 0 /\ elapsed' = 0 /\ attempts' = 0
    /\ burstCalls' = <<>> /\ busyCount' = 0 /\ started' = FALSE
    /\ critical' = FALSE /\ waited' = 0 /\ dlReqs' = 0
    /\ dlResult' = "none"
    /\ lastOutcome' = "none" /\ failedAt' = "none"
    /\ UNCHANGED <<config, nPnt, pointInfo, exc>>

\* robustBurst, lines 115-122
RobustBurstBegin ==
    /\ pc = "rb_begin"
    /\ UNCHANGED <<unreported, client>>
    /\ nPnt' = nPnt + 1
    /\ fn' = FileName(nPnt + 1, 1)
    /\ elapsed' = 0
    /\ attempts' = 1
    /\ burstCalls' = <<>> /\ busyCount' = 0 /\ started' = FALSE
    /\ critical' = FALSE /\ waited' = 0 /\ dlReqs' = 0
    /\ dlResult' = "none"
    /\ lastOutcome' = "none" /\ failedAt' = "none"
    /\ pc' = "rb_loop"
    /\ UNCHANGED hist
    /\ UNCHANGED <<config, fix, refLat, refLon, moveDist, stat, caller,
                   pointInfo, exc, said>>

\* robustBurst, one pass of the retry loop (lines 123-142)
BurstAttempt ==
    /\ pc = "rb_loop"
    /\ UNCHANGED client
    /\ ~BudgetSpent(elapsed)
    /\ \E res \in BurstOutcomes, dt \in AttemptSecs :
          LET out == res.outcome
          IN /\ burstCalls' = Append(burstCalls, FileName(nPnt, attempts))
             /\ lastOutcome' = out
             /\ failedAt' = res.route
             /\ busyCount' = IF out = "RadarBusyException"
                             THEN busyCount + 1 ELSE busyCount
             /\ IF out = "ok"
                THEN /\ started' = TRUE
                     /\ unreported' = TRUE
                     /\ elapsed' = ElapsedAfterSuccess(elapsed, dt)
                     /\ pc' = "rb_tail"
                     /\ UNCHANGED <<attempts, exc>>
                ELSE IF Retried(out)
                THEN /\ attempts' = attempts + 1
                     /\ elapsed' = elapsed + dt
                     /\ pc' = IF BudgetSpent(elapsed + dt)
                              THEN "rb_tail" ELSE "rb_loop"
                     /\ UNCHANGED <<started, unreported, exc>>
                ELSE /\ exc' = out
                     /\ pc' = "crashed"
                     /\ UNCHANGED <<attempts, elapsed, started, unreported>>
    /\ UNCHANGED hist
    /\ UNCHANGED <<config, fix, ctrl, caller, fn, critical, waited, dlReqs,
                   dlResult, pointInfo, said>>

\* variant: the spent budget raised to the caller
AfterBudgetTestRaises(spent) == IF spent THEN "TimeoutError" ELSE "none"
\* robustBurst lines 143-149: a spent budget is printed, logged as critical
\* and said aloud; nothing is raised and the method goes on ("none")
AfterBudgetTest(spent) == "none"

\* robustBurst after the loop (lines 143-216): the budget test, the fixed
\* wait, the optional download and archiving inside try / except, the log
\* lines, the return.  The block that polled radar/results (lines 161-186)
\* is commented out in the source: no results request is made, so nothing
\* reports the burst finished.
RobustBurstTail ==
    /\ pc = "rb_tail"
    /\ UNCHANGED <<unreported, client>>
    /\ critical' = BudgetSpent(elapsed)
    /\ \E localCopy \in BOOLEAN, dl \in DownloadOutcomes :
          IF AfterBudgetTest(BudgetSpent(elapsed)) # "none"
          THEN /\ exc' = AfterBudgetTest(BudgetSpent(elapsed))
               /\ pc' = "crashed"
               /\ UNCHANGED <<waited, dlReqs, dlResult, pointInfo>>
          ELSE IF DownloadFile /\ ~localCopy
          THEN /\ waited' = WAIT_LIMIT + 1
               /\ dlReqs' = 1
               /\ dlResult' = dl
               /\ IF dl = "ok" \/ DownloadCaught(dl)
                  THEN /\ pointInfo' = pointInfo + 1
                       /\ pc' = "rb_ret"
                       /\ exc' = exc
                  ELSE /\ pointInfo' = pointInfo
                       /\ pc' = "crashed"
                       /\ exc' = dl
          ELSE /\ waited' = WAIT_LIMIT + 1
               /\ dlReqs' = 0
               /\ dlResult' = "none"
               /\ pointInfo' = pointInfo + 1
               /\ pc' = "rb_ret"
               /\ exc' = exc
    /\ UNCHANGED hist
    /\ UNCHANGED <<config, fix, ctrl, caller, rbLocals, burstCalls, busyCount,
                   started, lastOutcome, failedAt, said>>

\* Run.py lines 48-50: after the first shot
FirstShotReturn ==
    /\ pc = "rb_ret"
    /\ UNCHANGED <<unreported, client>>
    /\ caller = "first"
    /\ refLat' = lat /\ refLon' = lon
    /\ stat' = MF
    /\ pc' = "gps"
    /\ UNCHANGED hist
    /\ UNCHANGED <<config, fix, moveDist, nPnt, caller, rbLocals, rbObs,
                   pointInfo, exc, said>>

\* variant: the reference point left where it was
TriggerReturnKeepRef ==
    /\ pc = "rb_ret"
    /\ UNCHANGED <<unreported, client>>
    /\ caller = "trigger"
    /\ stat' = MF
    /\ pc' = "gps"
    /\ UNCHANGED hist
    /\ UNCHANGED <<config, fix, refLat, refLon, moveDist, nPnt, caller,
                   rbLocals, rbObs, pointInfo, exc, said>>

\* triggerApRES lines 420-422: after robustBurst returned
TriggerReturn ==
    /\ pc = "rb_ret"
    /\ UNCHANGED <<unreported, client>>
    /\ caller = "trigger"
    /\ refLat' = lat /\ refLon' = lon
    /\ stat' = MF
    /\ pc' = "gps"
    /\ UNCHANGED hist
    /\ UNCHANGED <<config, fix, moveDist, nPnt, caller, rbLocals, rbObs,
                   pointInfo, exc, said>>

Next ==
    \/ FirstFix
    \/ Cycle
    \/ RobustBurstBegin
    \/ BurstAttempt
    \/ RobustBurstTail
    \/ FirstShotReturn
    \/ TriggerReturn

Spec == Init /\ [][Next]_vars

\* ==================================================================
\* The HTTP client library (apreshttp.py), one call at a time
\* ==================================================================
\* api.timeout and api.resultsInterval, in seconds
API_TIMEOUT == 30
RESULTS_INTERVAL == 2
\* the longest a poll request takes, in whole seconds
MaxPollSecs == 1

\* antenna masks the device reports, as the tuples readResponse stores
DeviceTxMasks == {<<1, 0, 0, 0, 0, 0, 0, 0>>, <<1, 1, 0, 0, 0, 0, 0, 0>>}
DeviceRxMasks == {<<1, 0, 0, 0, 0, 0, 0, 0>>, <<1, 0, 1, 0, 0, 0, 0, 0>>}

\* the configuration record of the device: the eight keys readResponse reads
DeviceConfig(n, nsub, navg, ud, rf, af, tx, rx) ==
    [nAttenuators |-> n, nSubBursts |-> nsub, nAverages |-> navg,
     userData |-> ud, rfAttn |-> rf, afGain |-> af,
     txAntenna |-> tx, rxAntenna |-> rx]

\* configurations the device may hold when a results call begins
DeviceConfigs ==
    {DeviceConfig(n, nsub, navg, "", [i \in 1..n |-> 0], [i \in 1..n |-> -4],
                  tx, rx) :
        n \in {1, 2}, nsub \in {1, 5}, navg \in {0, 1},
        tx \in DeviceTxMasks, rx \in DeviceRxMasks}

\* the configuration Run.py sets before the survey
SurveyConfig ==
    DeviceConfig(1, 5, 1, "", <<25>>, <<-14>>,
                 <<1, 1, 0, 0, 0, 0, 0, 0>>, <<1, 0, 1, 0, 0, 0, 0, 0>>)

\* variant: the fetched configuration not taken over
CacheKeptAfterGet(cache, g, cur) == cache
\* Radar.Config.get as seen in the cache: a reply that passes leaves the
\* device's configuration in the fields, a failing one leaves them alone
CacheAfterGet(cache, g, cur) == IF ConfigGet(g) = "ok" THEN cur ELSE cache

\* sum(...) over a tuple of numbers
RECURSIVE SumSeq(_)
SumSeq(q) == IF q = <<>> THEN 0 ELSE Head(q) + SumSeq(Tail(q))

\* variant: the base timeout of the API left out
TimeoutWithoutBase(c) ==
    (SumSeq(c.txAntenna) * SumSeq(c.rxAntenna))
        * (c.nSubBursts + c.nAverages) * c.nAttenuators * 2
\* Radar.__getResults lines 770-775: timeoutSeconds
TimeoutSeconds(c) ==
    (SumSeq(c.txAntenna) * SumSeq(c.rxAntenna))
        * (c.nSubBursts + c.nAverages) * c.nAttenuators * 2 + API_TIMEOUT

\* the radar states GET radar/results reports
RadarStates == {"idle", "busy", "finished"}
\* replies to GET radar/results: the HTTP reply and the reported status;
\* "complete" says whether the body carries the keys Results reads
ResultsResponses == [http : GetResponses, status : RadarStates]

\* variant: an idle radar polled again like a busy one
PollVerdictIdleWaits(st, complete) ==
    IF st = "finished"
    THEN IF complete THEN "Results" ELSE "BadResponseException"
    ELSE "continue"
\* Radar.__getResults lines 790-798: what one answered poll leads to
PollVerdict(st, complete) ==
    IF st = "idle" THEN "NoChirpStartedException"
    ELSE IF st = "finished"
    THEN IF complete THEN "Results" ELSE "BadResponseException"
    ELSE "continue"

\* one poll: the request, then the verdict on its status
PollOutcome(r) ==
    IF SendRequest(r.http) # "ok" THEN SendRequest(r.http)
    ELSE PollVerdict(r.status, r.http.complete)

\* variant: the time measured since the previous pass, not since init_time
PollSinceLastPass(c, dt) == RESULTS_INTERVAL + dt
\* now - init_time at the next loop test (line 784), when it was c at this
\* one: the request took dt and the loop slept api.resultsInterval (line 804)
PollAdvance(c, dt) == c + RESULTS_INTERVAL + dt

\* ----------------------------------------------------- Radar.Config.set
\* the most arguments other than None one call of Config.set is given
MaxSetArgs == 2

\* an argument of Config.set: its Python type and its value
NoneArg == [kind |-> "None", v |-> 0]
Num(n) == [kind |-> "num", v |-> n]
Str(t) == [kind |-> "str", v |-> t]
Tup(q) == [kind |-> "tuple", v |-> q]
Lst(q) == [kind |-> "list", v |-> q]

\* isinstance(x, int) or isinstance(x, float)
IsNumeric(a) == a.kind = "num"

\* antenna flag sequences passed to Config.set
Flags11 == <<1, 1, 0, 0, 0, 0, 0, 0>>
Flags101 == <<1, 0, 1, 0, 0, 0, 0, 0>>
FlagsNone == <<0, 0, 0, 0, 0, 0, 0, 0>>
FlagsSeven == <<1, 1, 0, 0, 0, 0, 0>>
FlagsNine == <<1, 0, 1, 0, 0, 0, 0, 0, 0>>
FlagsTwo == <<2, 0, 0, 0, 0, 0, 0, 0>>

\* the most attenuator settings the radar has (docstring of Config.set)
MaxAtts == 4

\* a key of a dictionary passed as rfAttnSet / afGainSet, in four parts: the
\* text before the name, the name, the digit after it, the text after it
Key(head, name, idx, tail) ==
    [head |-> head, name |-> name, idx |-> idx, tail |-> tail]
\* type + str(i)
AttKey(type, i) == Key("", type, i, "")
KeyString(k) == k.head \o k.name \o ToString(k.idx) \o k.tail
\* one item of a dictionary
Entry(k, v) == [key |-> k, val |-> v]
\* a dictionary argument: its items in order
Dct(q) == [kind |-> "dict", v |-> q]

\* the values each parameter of Config.set is given
NAttsArgs == {NoneArg, Num(1), Num(2), Str("2")}
NBurstsArgs == {NoneArg, Num(5), Str("5")}
NAveragesArgs == {NoneArg, Num(2), Str("2")}
TxAntArgs ==
    {NoneArg, Tup(Flags11), Tup(FlagsNone), Tup(FlagsSeven), Tup(FlagsTwo),
     Lst(Flags11)}
RxAntArgs == {NoneArg, Tup(Flags101), Tup(FlagsNone), Tup(FlagsNine)}
RfAttnArgs ==
    {NoneArg, Num(25), Lst(<<25>>), Lst(<<25, 20>>), Lst(<<25, NoneVal>>),
     Tup(<<25>>), Tup(<<25, 20>>),
     Dct(<<Entry(AttKey("rfAttn", 1), 25)>>),
     Dct(<<Entry(AttKey("rfAttn", 2), 20)>>),
     Dct(<<Entry(Key("", "rfAttn", 1, "x"), 25)>>),
     Dct(<<Entry(Key("x", "rfAttn", 1, ""), 25)>>),
     Dct(<<Entry(AttKey("afGain", 1), 25)>>)}
AfGainArgs ==
    {NoneArg, Num(-14), Lst(<<-14>>), Lst(<<-14, -4>>), Tup(<<-14>>),
     Dct(<<Entry(AttKey("afGain", 1), -14)>>),
     Dct(<<Entry(AttKey("afGain", 3), -14)>>)}
UserDataArgs == {NoneArg, Str("survey"), Num(7)}

SetParams ==
    {"nAtts", "nBursts", "nAverages", "txAnt", "rxAnt", "rfAttnSet",
     "afGainSet", "userData"}

SetArgs ==
    {a \in [nAtts : NAttsArgs, nBursts : NBurstsArgs,
            nAverages : NAveragesArgs, txAnt : TxAntArgs, rxAnt : RxAntArgs,
            rfAttnSet : RfAttnArgs, afGainSet : AfGainArgs,
            userData : UserDataArgs] :
        Cardinality({k \in SetParams : a[k].kind # "None"}) <= MaxSetArgs}

\* ",".join([str(x) for x in flags])
RECURSIVE JoinComma(_)
JoinComma(q) ==
    IF q = <<>> THEN ""
    ELSE IF Len(q) = 1 THEN ToString(q[1])
    ELSE ToString(Head(q)) \o "," \o JoinComma(Tail(q))

\* Config.set lines 1180-1211: the test of txAnt / rxAnt.  count is the
\* number of elements the loop went over.
AntennaCheck(a) ==
    IF a.kind = "tuple" /\ Len(a.v) = 8
    THEN IF \E i \in 1..Len(a.v) : a.v[i] # 0 /\ a.v[i] # 1
         THEN "ValueError"
         ELSE LET count == Len(a.v)
              IN IF count > 0 THEN "ok" ELSE "ValueError"
    ELSE "ValueError"

\* Python's "nAtts or self.nAttenuators" (lines 1215, 1222)
EffectiveNAtts(nAtts, cache) ==
    IF nAtts.kind = "num" /\ nAtts.v # 0 THEN nAtts.v ELSE cache.nAttenuators

\* variant: a single value taken whatever the number of attenuators
ScalarTakenAlways(nAtts) == TRUE
\* parseRFAttnAFGain line 1288: a single value needs one attenuator (nAtts
\* is never None here: Config.set passes "nAtts or self.nAttenuators")
ScalarTaken(nAtts) == nAtts = 1

\* variant: a list of any length taken
ListTakenAlways(q, nAtts) == TRUE
\* line 1300: a list needs as many elements as there are attenuators
ListTaken(q, nAtts) == Len(q) = nAtts

\* variant: only the first element of a list kept
NumericEntriesFirstOnly(type, q) == <<Entry(AttKey(type, 1), q[1])>>
\* lines 1302-1305: the numeric elements of a list under type + str(i + 1)
NumericEntries(type, q) ==
    LET all == [i \in 1..Len(q) |-> Entry(AttKey(type, i), q[i])]
    IN SelectSeq(all, LAMBDA e : e.val # NoneVal)

\* re.search(type + "([1-" + str(nAtts) + "])", key): the index at which
\* the pattern is first found, NoneVal when it is not found
ReSearch(type, k, nAtts) ==
    IF k.name = type /\ k.idx \in 1..nAtts
    THEN IF k.head = "" THEN 0 ELSE 1
    ELSE NoneVal
\* line 1328: match != None and match.span()[0] == 0
KeyAccepted(type, k, nAtts) ==
    ReSearch(type, k, nAtts) # NoneVal /\ ReSearch(type, k, nAtts) = 0

\* Config.parseRFAttnAFGain: the error raised ("ok" if none) and the items
\* of the dictionary returned.  A tuple matches none of the isinstance
\* branches and yields the empty dictionary.
ParseRFAttnAFGain(type, arg, nAtts) ==
    IF IsNumeric(arg)
    THEN IF ScalarTaken(nAtts)
         THEN [err |-> "ok", resp |-> <<Entry(AttKey(type, 1), arg.v)>>]
         ELSE [err |-> "ValueError", resp |-> <<>>]
    ELSE IF arg.kind = "list"
    THEN IF ListTaken(arg.v, nAtts)
         THEN [err |-> "ok", resp |-> NumericEntries(type, arg.v)]
         ELSE [err |-> "ValueError", resp |-> <<>>]
    ELSE IF arg.kind = "dict"
    THEN IF \A i \in 1..Len(arg.v) : KeyAccepted(type, arg.v[i].key, nAtts)
         THEN [err |-> "ok", resp |-> arg.v]
         ELSE [err |-> "KeyError", resp |-> <<>>]
    ELSE [err |-> "ok", resp |-> <<>>]

\* the items of a parsed set as a dictionary, as they are merged into
\* data_obj (lines 1216-1218)
Keyed(resp) ==
    [s \in {KeyString(resp[i].key) : i \in 1..Len(resp)} |->
        resp[CHOOSE i \in 1..Len(resp) : KeyString(resp[i].key) = s].val]

\* what of an argument goes into data_obj under key k
Field(cond, k, v) == IF cond THEN [x \in {k} |-> v] ELSE EmptyData

\* Config.set lines 1156-1231: data_obj for arguments that passed the tests;
\* a userData that is no string is left out
DataObj(a, rf, af) ==
    Field(a.nAtts.kind # "None", "nAttenuators", a.nAtts.v)
    @@ Field(a.nBursts.kind # "None", "nSubBursts", a.nBursts.v)
    @@ Field(a.nAverages.kind # "None", "nAverages", a.nAverages.v)
    @@ Field(a.txAnt.kind # "None", "txAntenna", JoinComma(a.txAnt.v))
    @@ Field(a.rxAnt.kind # "None", "rxAntenna", JoinComma(a.rxAnt.v))
    @@ Keyed(rf) @@ Keyed(af)
    @@ Field(a.userData.kind = "str", "userData", a.userData.v)

\* Config.set lines 1159-1225: the first validation error, "ok" if none
Validation(a, cache) ==
    LET n == EffectiveNAtts(a.nAtts, cache)
    IN IF a.nAtts.kind # "None" /\ ~IsNumeric(a.nAtts) THEN "ValueError"
       ELSE IF a.nBursts.kind # "None" /\ ~IsNumeric(a.nBursts)
       THEN "ValueError"
       ELSE IF a.nAverages.kind # "None" /\ ~IsNumeric(a.nAverages)
       THEN "ValueError"
       ELSE IF a.txAnt.kind # "None" /\ AntennaCheck(a.txAnt) # "ok"
       THEN AntennaCheck(a.txAnt)
       ELSE IF a.rxAnt.kind # "None" /\ AntennaCheck(a.rxAnt) # "ok"
       THEN AntennaCheck(a.rxAnt)
       ELSE IF a.rfAttnSet.kind # "None"
               /\ ParseRFAttnAFGain("rfAttn", a.rfAttnSet, n).err # "ok"
       THEN ParseRFAttnAFGain("rfAttn", a.rfAttnSet, n).err
       ELSE IF a.afGainSet.kind # "None"
               /\ ParseRFAttnAFGain("afGain", a.afGainSet, n).err # "ok"
       THEN ParseRFAttnAFGain("afGain", a.afGainSet, n).err
       ELSE "ok"

\* valid_rf / valid_af: None (here the empty dictionary, which the checks of
\* lines 1251-1268 treat alike) when the argument is None
ValidSet(type, arg, n) ==
    IF arg.kind = "None" THEN <<>> ELSE ParseRFAttnAFGain(type, arg, n).resp

\* ---- the device
\* the flag sequences the device can be sent as a comma-separated string
KnownFlags == {Flags11, Flags101, FlagsNone}
\* the device reads a comma-separated flag string back into a list
SplitComma(str) == CHOOSE q \in KnownFlags : JoinComma(q) = str

\* the fields a device may fail to apply
StaleFields ==
    {"none", "nAttenuators", "nSubBursts", "nAverages", "userData", "rfAttn",
     "afGain", "txAntenna", "rxAntenna"}

Applies(d, k, stale) == k \in DOMAIN d /\ stale # k

\* the configuration the device reports after a POST of d, when it held cur
\* and applied every field sent except the stale one
DeviceReport(cur, d, stale) ==
    LET n == IF Applies(d, "nAttenuators", stale)
             THEN d["nAttenuators"] ELSE cur.nAttenuators
        atts(type, old) ==
            [i \in 1..n |->
                IF (type \o ToString(i)) \in DOMAIN d /\ stale # type
                THEN d[type \o ToString(i)]
                ELSE IF i <= Len(old) THEN old[i] ELSE 0]
    IN DeviceConfig(
           n,
           IF Applies(d, "nSubBursts", stale)
               THEN d["nSubBursts"] ELSE cur.nSubBursts,
           IF Applies(d, "nAverages", stale)
               THEN d["nAverages"] ELSE cur.nAverages,
           IF Applies(d, "userData", stale)
               THEN d["userData"] ELSE cur.userData,
           atts("rfAttn", cur.rfAttn),
           atts("afGain", cur.afGain),
           IF Applies(d, "txAntenna", stale)
               THEN SplitComma(d["txAntenna"]) ELSE cur.txAntenna,
           IF Applies(d, "rxAntenna", stale)
               THEN SplitComma(d["rxAntenna"]) ELSE cur.rxAntenna)

\* Radar.Config.readResponse: the exception raised ("ok" if none) and the
\* cached fields it leaves.  The fields are assigned (lines 1039-1048) before
\* the lengths are compared (lines 1058-1062).
ReadResponse(cache, complete, rep) ==
    IF ~complete THEN [outcome |-> "BadResponseException", cache |-> cache]
    ELSE IF Len(rep.rfAttn) = rep.nAttenuators
            /\ Len(rep.afGain) = rep.nAttenuators
    THEN [outcome |-> "ok", cache |-> rep]
    ELSE [outcome |-> "BadResponseException", cache |-> rep]

\* int(key[-1]): the last character of a key as a number, NoneVal when it
\* is no digit
LastCharInt(k) == IF k.tail = "" THEN k.idx ELSE NoneVal

\* lines 1251-1268: the items of valid_rf / valid_af, in order, against the
\* list the device reported
RECURSIVE VerifyEntries(_, _)
VerifyEntries(resp, reported) ==
    IF resp = <<>> THEN "ok"
    ELSE LET k == Head(resp).key
         IN IF LastCharInt(k) = NoneVal THEN "ValueError"
            ELSE IF LastCharInt(k) > Len(reported) THEN "IndexError"
            ELSE IF Head(resp).val # reported[LastCharInt(k)]
            THEN "DidNotUpdateException"
            ELSE VerifyEntries(Tail(resp), reported)

\* Config.set lines 1245-1268: the comparison of what was asked with what
\* the device reported; nAverages, the antenna masks and userData are not
\* compared
Verify(a, rf, af, c) ==
    IF a.nAtts.kind # "None" /\ a.nAtts.v # c.nAttenuators
    THEN "DidNotUpdateException"
    ELSE IF a.nBursts.kind # "None" /\ a.nBursts.v # c.nSubBursts
    THEN "DidNotUpdateException"
    ELSE IF VerifyEntries(rf, c.rfAttn) # "ok"
    THEN VerifyEntries(rf, c.rfAttn)
    ELSE VerifyEntries(af, c.afGain)

\* replies to GET radar/config and to POST radar/config in a call of set
SetGetResponses ==
    { Reply("ok", 200, TRUE, NoCode, FALSE, TRUE),
      Reply("refused", 0, FALSE, NoCode, FALSE, FALSE) }
SetPostResponses ==
    { Reply("ok", 200, TRUE, NoCode, FALSE, TRUE),
      Reply("ok", 200, TRUE, NoCode, FALSE, FALSE),
      Reply("ok", 400, TRUE, 400, TRUE, FALSE),
      Reply("ok", 500, FALSE, NoCode, FALSE, FALSE),
      Reply("refused", 0, FALSE, NoCode, FALSE, FALSE) }
\* what the device does with the POST: its reply and the field it leaves
DeviceBehaviours ==
    {[p |-> Reply("ok", 200, TRUE, NoCode, FALSE, TRUE), stale |-> f] :
        f \in StaleFields}
    \cup {[p |-> r, stale |-> "none"] : r \in SetPostResponses}
\* the configurations the device holds before a call of set
SetDeviceConfigs ==
    {DeviceConfig(n, 1, 1, "", [i \in 1..n |-> 0], [i \in 1..n |-> -4],
                  <<1, 0, 0, 0, 0, 0, 0, 0>>, <<1, 0, 0, 0, 0, 0, 0, 0>>) :
        n \in {1, 2}}

\* the configuration the device holds after the POST of d: it stores what
\* it is sent when the request reaches it and it answers 200
DeviceAfter(cur, d, dev) ==
    IF dev.p.transport = "ok" /\ dev.p.status = 200
    THEN DeviceReport(cur, d, dev.stale)
    ELSE cur

\* the GET of radar/config every call of get issues (line 1005)
ConfigGetReq(key, count) ==
    Req("GET", "radar/config", GetParams(NoDataObj, key, FALSE, count))

\* Radar.Config.set: the outcome ("ok" for the returned Config, "None" for
\* the return without a value, else the exception raised), the POST issued,
\* the cached fields afterwards, the requests issued and the configuration
\* the device is left with
ConfigSet(a, g, cur, dev, cache0, key) ==
    LET cache1 == CacheAfterGet(cache0, g, cur)
        n == EffectiveNAtts(a.nAtts, cache1)
        rf == ValidSet("rfAttn", a.rfAttnSet, n)
        af == ValidSet("afGain", a.afGainSet, n)
        d == DataObj(a, rf, af)
        post == [posted |-> TRUE, data |-> d]
        get == ConfigGetReq(key, 1)
        both == <<get, Req("POST", "radar/config",
                          PostData(DataObjArg(d), key, FALSE, 2))>>
        after == DeviceAfter(cur, d, dev)
        rd == ReadResponse(cache1, dev.p.complete,
                           DeviceReport(cur, d, dev.stale))
    IN IF ConfigGet(g) # "ok"
       THEN [outcome |-> ConfigGet(g), sent |-> NoPost, cache |-> cache1,
             issued |-> <<get>>, device |-> cur]
       ELSE IF Validation(a, cache1) # "ok"
       THEN [outcome |-> Validation(a, cache1), sent |-> NoPost,
             cache |-> cache1, issued |-> <<get>>, device |-> cur]
       ELSE IF SendRequest(dev.p) # "ok"
       THEN [outcome |-> SendRequest(dev.p), sent |-> post, cache |-> cache1,
             issued |-> both, device |-> after]
       ELSE IF dev.p.status = 400
       THEN [outcome |-> IF dev.p.errorMessage THEN "BadResponseException"
                         ELSE "KeyError",
             sent |-> post, cache |-> cache1, issued |-> both,
             device |-> after]
       ELSE IF dev.p.status = 200
       THEN IF rd.outcome # "ok"
            THEN [outcome |-> rd.outcome, sent |-> post, cache |-> rd.cache,
                  issued |-> both, device |-> after]
            ELSE [outcome |-> Verify(a, rf, af, rd.cache), sent |-> post,
                  cache |-> rd.cache, issued |-> both, device |-> after]
       ELSE [outcome |-> "None", sent |-> post, cache |-> cache1,
             issued |-> both, device |-> after]

\* a device that answers every request and stores what it is sent
OkReply == Reply("ok", 200, TRUE, NoCode, FALSE, TRUE)
StoringDevice == [p |-> OkReply, stale |-> "none"]

\* the attenuation and gain values of the round trip
RfValues == {0, 25}
AfValues == {-14, -4}
\* Config.set(nAtts = n, rfAttnSet = [..], afGainSet = [..]) with lists of
\* exactly n numbers
RoundTripArgs ==
    {[nAtts |-> Num(n), nBursts |-> NoneArg, nAverages |-> NoneArg,
      txAnt |-> NoneArg, rxAnt |-> NoneArg, rfAttnSet |-> Lst(rf),
      afGainSet |-> Lst(af), userData |-> NoneArg] :
        <<n, rf, af>> \in
            UNION {{n} \X [1..n -> RfValues] \X [1..n -> AfValues] :
                      n \in 1..MaxAtts}}

\* the configuration cached by an earlier get, which the device has left
\* behind since
OlderConfig ==
    DeviceConfig(2, 1, 1, "", <<0, 0>>, <<-4, -4>>,
                 <<1, 0, 0, 0, 0, 0, 0, 0>>, <<1, 0, 0, 0, 0, 0, 0, 0>>)
CachedConfigs == {NoConfig, OlderConfig}

\* a call of set: the arguments, the replies, what the device holds, what
\* the Config object has cached, and whether a call of get follows
\* the call ApRES_Set makes (ApRES_RTK_SAR.py lines 91-98) with the radar
\* parameters of Run.py lines 17-23: the lists are passed as tuples
ApRES_SetArgs ==
    [nAtts |-> Num(1), nBursts |-> Num(5), nAverages |-> NoneArg,
     txAnt |-> Tup(Flags11), rxAnt |-> Tup(Flags101),
     rfAttnSet |-> Tup(<<25>>), afGainSet |-> Tup(<<-14>>),
     userData |-> NoneArg]
SetCallInputs ==
    [a : SetArgs \cup {ApRES_SetArgs}, g : SetGetResponses,
     cfg : SetDeviceConfigs,
     dev : DeviceBehaviours, cached : CachedConfigs, then : {"none"}]
    \cup [a : RoundTripArgs, g : {OkReply}, cfg : SetDeviceConfigs,
          dev : {StoringDevice}, cached : CachedConfigs, then : {"get"}]

\* ---- Radar.Config.get
RequiredKeys ==
    {"nSubBursts", "nAttenuators", "nAverages", "rfAttn", "afGain",
     "userData", "txAntenna", "rxAntenna"}
\* variant: userData not asked for
RequiredKeysButUserData == RequiredKeys \ {"userData"}
\* readResponse lines 1025-1040: the keys the body must have
ResponseKeys == RequiredKeys
HasResponseKeys(keys) == ResponseKeys \subseteq keys

\* the bodies of a reply to GET radar/config: the keys present, and the
\* values under them (those of absent keys are not read)
KeySets == {RequiredKeys} \cup {RequiredKeys \ {k} : k \in RequiredKeys}
ReportedConfigs ==
    SetDeviceConfigs
    \cup {DeviceConfig(2, 1, 1, "", <<0>>, <<-4, -4>>,
                       <<1, 0, 0, 0, 0, 0, 0, 0>>, <<1, 0, 0, 0, 0, 0, 0, 0>>),
          DeviceConfig(1, 1, 1, "", <<0>>, <<-4, -4>>,
                       <<1, 0, 0, 0, 0, 0, 0, 0>>, <<1, 0, 0, 0, 0, 0, 0, 0>>)}

\* Radar.Config.get lines 1001-1012 with readResponse: the outcome and the
\* cached fields
ConfigGetBody(cache, g, keys, rep) ==
    IF SendRequest(g) # "ok"
    THEN [outcome |-> SendRequest(g), cache |-> cache]
    ELSE IF g.status # 200
    THEN [outcome |-> "BadResponseException", cache |-> cache]
    ELSE ReadResponse(cache, HasResponseKeys(keys), rep)

\* the replies to the GET of a call of get; what the body holds is told
\* by the keys
GetCallInputs ==
    [g : {Reply(r.transport, r.status, r.ctJson, r.errorCode,
                r.errorMessage, TRUE) : r \in GetResponses},
     keys : KeySets, rep : ReportedConfigs, cached : CachedConfigs]

\* ---- Radar.burst, Radar.trialBurst
\* the requests of a call that fetches the configuration and then POSTs
\* data to a route: the POST is reached only when get returned
GetThenPost(g, route, arg, key) ==
    IF ConfigGet(g) # "ok" THEN <<ConfigGetReq(key, 1)>>
    ELSE <<ConfigGetReq(key, 1),
           Req("POST", route, PostData(arg, key, FALSE, 2))>>

\* Radar.burst line 848: data_obj of a burst into file "f.dat"
BurstData == DataObjArg([k \in {"filename"} |-> "f.dat"])

\* Radar.trialBurst(): the outcome ("ok" or the exception raised); a
\* refused connection of the POST is raised as RadarBusyException (lines
\* 696-700)
RadarTrialBurst(g, p) ==
    IF ConfigGet(g) # "ok" THEN ConfigGet(g)
    ELSE IF SendRequest(p) = "requests.exceptions.ConnectionError"
    THEN "RadarBusyException"
    ELSE IF SendRequest(p) # "ok" THEN SendRequest(p)
    ELSE IF p.status # VALID_BURST_STATUS_CODE THEN "RadarBusyException"
    ELSE "ok"

\* ---- inputs of the other calls
BurstCallInputs == [g : GetResponses, p : PostResponses, cfg : {SurveyConfig}]
ResultsCallInputs == [g : GetResponses, cfg : DeviceConfigs]
DownloadCallInputs == [exists : BOOLEAN, r : GetResponses]
RootCallInputs == [root : {Str(t) : t \in RootStrings} \cup {Num(8080)}]
\* data_obj arguments of a direct postRequest / getRequest
DataObjArgs ==
    {NoDataObj, DataObjArg(EmptyData),
     DataObjArg([k \in {"path"} |-> "f.dat"]),
     DataObjArg([k \in {"apikey"} |-> "caller"]),
     DataObjArg([k \in {"apikey", "path"} |->
                    IF k = "apikey" THEN "caller" ELSE "f.dat"])}
\* the replies to a direct request: those above and a body that has
\* errorCode without errorMessage
RequestReplies ==
    GetResponses \cup PostResponses
        \cup {Reply("ok", 200, TRUE, 503, FALSE, TRUE)}
RequestCallInputs ==
    [method : {"GET", "POST"}, arg : DataObjArgs, debug : BOOLEAN,
     r : RequestReplies]

\* ---- Radar.burst with a callback, Radar.results
\* a Python value handed over as a callback: None, a callable, or a bool
BoolArg(b) == IF b THEN "True" ELSE "False"
CallbackArgs == {"None", "callable"}
\* Radar.burst line 866, self.results(callback, wait): the arguments bind by
\* position to results(callback, updateCallback, wait = True)
BurstResultsArgs(cb, upd, w) ==
    [callback |-> cb, updateCallback |-> BoolArg(w), wait |-> TRUE]
\* the arguments of the call of results under way: results() of the caller
\* himself with its defaults, or the call burst makes
ResultsArgs ==
    IF op = "results"
    THEN [callback |-> "None", updateCallback |-> "None", wait |-> TRUE]
    ELSE BurstResultsArgs(call.callback, call.updateCallback, call.wait)
\* the reply to the GET of radar/config that __getResults makes
ResultsGet == IF op = "results" THEN call.g ELSE call.g2
\* Radar.results lines 749-756: __getResults runs in the calling thread
\* when wait is true, else in a new thread while results returns
ResultsThread(w) == IF w THEN "caller" ELSE "new"
\* Radar.__getResults lines 800-801: None is skipped, anything else is
\* called, which a value that is not callable answers with TypeError
UpdateCall(u) ==
    IF u = "None" THEN "skipped"
    ELSE IF u = "callable" THEN "called"
    ELSE "TypeError"
BurstCallbackInputs ==
    [g : GetResponses, p : PostResponses, cfg : {SurveyConfig},
     g2 : SetGetResponses, callback : {"callable"},
     updateCallback : CallbackArgs, wait : BOOLEAN]

\* the survey program is not running while a client call is studied
SurveyParked ==
    /\ stepsize = 150
    /\ min_err = MinErrOf(150) /\ max_err = MaxErrOf(150)
    /\ RTKsens = TRUE /\ DownloadFile = FALSE
    /\ lat = 0 /\ lon = 0 /\ iquality = 0
    /\ refLat = NoRef /\ refLon = NoRef
    /\ moveDist = 0 /\ stat = "unset" /\ nPnt = 0
    /\ pc = "api" /\ caller = "none"
    /\ fn = 0 /\ elapsed = 0 /\ attempts = 0
    /\ burstCalls = <<>> /\ busyCount = 0 /\ started = FALSE
    /\ critical = FALSE /\ waited = 0 /\ dlReqs = 0 /\ pointInfo = 0
    /\ lastOutcome = "none" /\ failedAt = "none"
    /\ exc = "none" /\ said = "none"
    /\ scriptPos = 0 /\ statTrace = <<>> /\ fireTrace = <<>>
    /\ dlResult = "none" /\ unreported = FALSE

\* a client call about to be made, with the replies the radar will give.
\* The API object may have been given a key (setKey), the Config object may
\* hold what an earlier get fetched, the destination of a download may
\* exist.
ApiInit ==
    /\ SurveyParked
    /\ \/ /\ op \in {"burst", "trial"} /\ call \in BurstCallInputs
          /\ cfgCache = NoConfig /\ device = call.cfg
          /\ apiKey = DEFAULT_API_KEY /\ localFile = "absent"
       \/ /\ op = "results" /\ call \in ResultsCallInputs
          /\ cfgCache = NoConfig /\ device = call.cfg
          /\ apiKey = DEFAULT_API_KEY /\ localFile = "absent"
       \/ /\ op = "set" /\ call \in SetCallInputs
          /\ cfgCache = call.cached /\ device = call.cfg
          /\ apiKey = DEFAULT_API_KEY /\ localFile = "absent"
       \/ /\ op = "get" /\ call \in GetCallInputs
          /\ cfgCache = call.cached /\ device = NoConfig
          /\ apiKey = DEFAULT_API_KEY /\ localFile = "absent"
       \/ /\ op = "download" /\ call \in DownloadCallInputs
          /\ cfgCache = NoConfig /\ device = NoConfig
          /\ apiKey = DEFAULT_API_KEY
          /\ localFile = IF call.exists THEN "kept" ELSE "absent"
       \/ /\ op = "root" /\ call \in RootCallInputs
          /\ cfgCache = NoConfig /\ device = NoConfig
          /\ apiKey = DEFAULT_API_KEY /\ localFile = "absent"
       \/ /\ op = "request" /\ call \in RequestCallInputs
          /\ cfgCache = NoConfig /\ device = NoConfig
          /\ apiKey \in ApiKeys /\ localFile = "absent"
       \/ /\ op = "burstcb" /\ call \in BurstCallbackInputs
          /\ cfgCache = NoConfig /\ device = call.cfg
          /\ apiKey = DEFAULT_API_KEY /\ localFile = "absent"
    /\ phase = "call" /\ result = "none"
    /\ timeoutSeconds = 0 /\ clock = 0 /\ lastStatus = "none"
    /\ onlyBusy = FALSE
    /\ sent = NoPost
    /\ issued = <<>> /\ apiRoot = <<>>
    /\ resultsThread = "none" /\ callback = "None"
    /\ updateCallback = "None" /\ callbackCalls = 0

\* Radar.burst(filename), without callback
DoBurst ==
    /\ op = "burst" /\ phase = "call"
    /\ result' = RadarBurst(call.g, call.p).outcome
    /\ cfgCache' = CacheAfterGet(cfgCache, call.g, call.cfg)
    /\ issued' = GetThenPost(call.g, "radar/burst", BurstData, apiKey)
    /\ phase' = "done"
    /\ UNCHANGED <<op, call, timeoutSeconds, clock, lastStatus, onlyBusy,
                   sent, device, apiKey, apiRoot, localFile>>
    /\ UNCHANGED polling
    /\ UNCHANGED survey

\* Radar.trialBurst(), without callback
DoTrialBurst ==
    /\ op = "trial" /\ phase = "call"
    /\ result' = RadarTrialBurst(call.g, call.p)
    /\ cfgCache' = CacheAfterGet(cfgCache, call.g, call.cfg)
    /\ issued' = GetThenPost(call.g, "radar/trial-burst", NoDataObj, apiKey)
    /\ phase' = "done"
    /\ UNCHANGED <<op, call, timeoutSeconds, clock, lastStatus, onlyBusy,
                   sent, device, apiKey, apiRoot, localFile>>
    /\ UNCHANGED polling
    /\ UNCHANGED survey

\* Radar.burst(filename, callback = ..., updateCallback = ..., wait = ...)
\* up to its last line: a burst that started goes on into Radar.results
DoBurstCallback ==
    /\ op = "burstcb" /\ phase = "call"
    /\ IF RadarBurst(call.g, call.p).outcome # "ok"
       THEN /\ result' = RadarBurst(call.g, call.p).outcome
            /\ phase' = "done"
       ELSE /\ result' = result
            /\ phase' = "results"
    /\ cfgCache' = CacheAfterGet(cfgCache, call.g, call.cfg)
    /\ issued' = GetThenPost(call.g, "radar/burst", BurstData, apiKey)
    /\ UNCHANGED <<op, call, timeoutSeconds, clock, lastStatus, onlyBusy,
                   sent, device, apiKey, apiRoot, localFile>>
    /\ UNCHANGED polling
    /\ UNCHANGED survey

\* Radar.results(callback, updateCallback, wait), lines 746-756, and the
\* start of __getResults, lines 764-781: the thread is chosen, the
\* configuration is fetched and the timeout computed from it
ResultsBegin ==
    /\ \/ op = "results" /\ phase = "call"
       \/ op = "burstcb" /\ phase = "results"
    /\ resultsThread' = ResultsThread(ResultsArgs.wait)
    /\ callback' = ResultsArgs.callback
    /\ updateCallback' = ResultsArgs.updateCallback
    /\ callbackCalls' = 0
    /\ IF ConfigGet(ResultsGet) # "ok"
       THEN /\ result' = ConfigGet(ResultsGet)
            /\ phase' = "done"
            /\ UNCHANGED <<timeoutSeconds, onlyBusy>>
       ELSE /\ timeoutSeconds' = TimeoutSeconds(call.cfg)
            /\ onlyBusy' = TRUE
            /\ phase' = "poll"
            /\ UNCHANGED result
    /\ cfgCache' = CacheAfterGet(cfgCache, ResultsGet, call.cfg)
    /\ UNCHANGED <<op, call, clock, lastStatus, sent, outside>>
    /\ UNCHANGED survey

\* one pass of the polling loop (lines 783-804); clock is the time since
\* init_time
ResultsPoll ==
    /\ op \in {"results", "burstcb"} /\ phase = "poll"
    /\ clock < timeoutSeconds
    /\ \E r \in ResultsResponses, dt \in 0..MaxPollSecs :
          LET out == PollOutcome(r)
          IN IF out = "continue"
             THEN IF UpdateCall(updateCallback) = "TypeError"
                  THEN /\ clock' = clock + dt
                       /\ lastStatus' = r.status
                       /\ result' = "TypeError"
                       /\ phase' = "done"
                       /\ UNCHANGED <<onlyBusy, callbackCalls>>
                  ELSE /\ clock' = PollAdvance(clock, dt)
                       /\ lastStatus' = r.status
                       /\ UNCHANGED <<phase, result, onlyBusy,
                                      callbackCalls>>
             ELSE /\ clock' = clock + dt
                  /\ lastStatus' = IF SendRequest(r.http) # "ok"
                                   THEN "none" ELSE r.status
                  /\ result' = out
                  /\ phase' = "done"
                  /\ onlyBusy' = FALSE
                  /\ callbackCalls' =
                        IF out = "Results" /\ callback # "None"
                        THEN callbackCalls + 1 ELSE callbackCalls
    /\ UNCHANGED <<op, call, timeoutSeconds, sent, cfgCache, outside>>
    /\ UNCHANGED <<resultsThread, callback, updateCallback>>
    /\ UNCHANGED survey

\* the loop condition fails (line 784): ResultsTimeoutException (line 806)
ResultsExpire ==
    /\ op \in {"results", "burstcb"} /\ phase = "poll"
    /\ ~(clock < timeoutSeconds)
    /\ result' = "ResultsTimeoutException"
    /\ phase' = "done"
    /\ UNCHANGED <<op, call, timeoutSeconds, clock, lastStatus, onlyBusy,
                   sent, cfgCache, outside>>
    /\ UNCHANGED polling
    /\ UNCHANGED survey

\* Radar.Config.set(...)
DoConfigSet ==
    /\ op = "set" /\ phase = "call"
    /\ LET r == ConfigSet(call.a, call.g, call.cfg, call.dev, cfgCache,
                          apiKey)
       IN /\ result' = r.outcome
          /\ sent' = r.sent
          /\ cfgCache' = r.cache
          /\ issued' = r.issued
          /\ device' = r.device
    /\ phase' = "done"
    /\ UNCHANGED <<op, call, timeoutSeconds, clock, lastStatus, onlyBusy,
                   apiKey, apiRoot, localFile>>
    /\ UNCHANGED polling
    /\ UNCHANGED survey

\* Radar.Config.get(): on its own with the reply of the call, or after a
\* set that returned, answered by the device with what it holds
DoConfigGet ==
    /\ \/ op = "get" /\ phase = "call"
       \/ op = "set" /\ phase = "done" /\ call.then = "get" /\ result = "ok"
    /\ LET r == IF op = "get"
                THEN ConfigGetBody(cfgCache, call.g, call.keys, call.rep)
                ELSE ConfigGetBody(cfgCache, OkReply, RequiredKeys, device)
       IN /\ result' = r.outcome
          /\ cfgCache' = r.cache
    /\ issued' = Append(issued, ConfigGetReq(apiKey, Len(issued) + 1))
    /\ phase' = IF op = "get" THEN "done" ELSE "got"
    /\ UNCHANGED <<op, call, timeoutSeconds, clock, lastStatus, onlyBusy,
                   sent, device, apiKey, apiRoot, localFile>>
    /\ UNCHANGED polling
    /\ UNCHANGED survey

\* Data.download(path) lines 1429-1450: the request is made and the file
\* written only past the test of the destination
DoDownload ==
    /\ op = "download" /\ phase = "call"
    /\ LET out == DataDownload(localFile # "absent", call.r)
       IN /\ result' = out
          /\ issued' = IF out = "FileExistsError" THEN <<>>
                       ELSE <<Req("GET", "data/download",
                                  GetParams(DataObjArg(
                                                [k \in {"path"} |-> "f.dat"]),
                                            apiKey, FALSE, 1))>>
          /\ localFile' = IF out = "ok" THEN "written" ELSE localFile
    /\ phase' = "done"
    /\ UNCHANGED <<op, call, timeoutSeconds, clock, lastStatus, onlyBusy,
                   sent, cfgCache, device, apiKey, apiRoot>>
    /\ UNCHANGED polling
    /\ UNCHANGED survey

\* API.assignRootURL(root)
DoAssignRootURL ==
    /\ op = "root" /\ phase = "call"
    /\ IF call.root.kind # "str"
       THEN result' = "TypeError" /\ UNCHANGED apiRoot
       ELSE result' = "ok" /\ apiRoot' = AssignRootURL(call.root.v)
    /\ phase' = "done"
    /\ UNCHANGED <<op, call, timeoutSeconds, clock, lastStatus, onlyBusy,
                   sent, cfgCache, issued, device, apiKey, localFile>>
    /\ UNCHANGED polling
    /\ UNCHANGED survey

\* APIChild.postRequest(url, data_obj) / getRequest(url, data_obj), called
\* directly
DoRequest ==
    /\ op = "request" /\ phase = "call"
    /\ issued' =
          <<Req(call.method, "system/reset",
                IF call.method = "POST"
                THEN PostData(call.arg, apiKey, call.debug, 1)
                ELSE GetParams(call.arg, apiKey, call.debug, 1))>>
    /\ result' = SendRequest(call.r)
    /\ phase' = "done"
    /\ UNCHANGED <<op, call, timeoutSeconds, clock, lastStatus, onlyBusy,
                   sent, cfgCache, device, apiKey, apiRoot, localFile>>
    /\ UNCHANGED polling
    /\ UNCHANGED survey

ApiNext ==
    \/ DoBurst
    \/ DoBurstCallback
    \/ DoTrialBurst
    \/ DoConfigSet
    \/ DoConfigGet
    \/ DoDownload
    \/ DoAssignRootURL
    \/ DoRequest
    \/ ResultsBegin
    \/ ResultsPoll
    \/ ResultsExpire

ApiSpec == ApiInit /\ [][ApiNext]_vars

\* every poll request returns and time advances: the polling loop goes on
\* while its condition holds and leaves when it fails
ApiFairSpec ==
    ApiInit /\ [][ApiNext]_vars
        /\ WF_vars(ResultsBegin) /\ WF_vars(ResultsPoll)
        /\ WF_vars(ResultsExpire)

\* ==================================================================
\* Properties
\* ==================================================================
RTK == {4, 5}
BurstPhases == {"rb_loop", "rb_tail", "rb_ret"}
ConnErr == "requests.exceptions.ConnectionError"

\* C1: in a pass whose fix has quality 4 or 5 and whose state is not "well
\* positioned", triggerApRES calls robustBurst if and only if
\* min_err < moveDist < max_err, both strict (so never at moveDist = min_err
\* or moveDist = max_err), and that one call is the only one until
\* triggerApRES returns.
C1_BurstIffInBand ==
    [][ /\ (pc = "gps" /\ iquality' \in RTK /\ stat # WP)
            => /\ (pc' = "rb_begin") <=>
                      (100 * moveDist' > min_err /\ 100 * moveDist' < max_err)
               /\ (100 * moveDist' = min_err \/ 100 * moveDist' = max_err)
                      => pc' = "gps"
               /\ nPnt' = nPnt
        /\ (pc = "rb_begin" /\ caller = "trigger") => nPnt' = nPnt + 1
        /\ (pc \in BurstPhases /\ caller = "trigger")
            => (pc' # "rb_begin" /\ nPnt' = nPnt) ]_vars

C1_Witness ==
    /\ pc = "rb_begin" /\ caller = "trigger" /\ iquality \in RTK
    /\ 100 * moveDist > min_err /\ 100 * moveDist < max_err

C3_RefResetOnSuccess ==
    [][ /\ (pc \in {"rb_begin"} \cup BurstPhases)
            => (lat' = lat /\ lon' = lon /\ iquality' = iquality)
        /\ (pc = "rb_ret" /\ caller = "trigger" /\ started)
            => (refLat' = lat /\ refLon' = lon /\ stat' = MF /\ pc' = "gps")
      ]_vars

C3_Witness ==
    /\ pc = "gps" /\ caller = "trigger" /\ started /\ stat = MF
    /\ refLat = lat /\ refLon = lon /\ said = "Stop"

\* C4 as stated: with stepsize 150 the displacements 0, 50, 150, 155, 300
\* give the states MF, MF, MF, WP, MB and a single burst, at 155.
C4_AsStated ==
    (stepsize = 150 /\ scriptPos >= 0)
        => /\ \A i \in 1..Len(statTrace) :
                 statTrace[i] = <<MF, MF, MF, WP, MB>>[i]
           /\ \A i \in 1..Len(fireTrace) : fireTrace[i] = 155
           /\ Len(fireTrace) <= 1
           /\ scriptPos >= 4 => fireTrace = <<155>>

\* C4 amended: with stepsize 150 (min_err 148.5, max_err 160.5) the
\* displacements 0, 50, 150, 155, 300 give the states MF, MF, WP, WP, MB:
\* 150 lies inside the band, so the burst is triggered twice, at 150 and at
\* 155, and at no other displacement of the sequence.
C4_Amended ==
    (stepsize = 150 /\ scriptPos >= 0)
        => /\ Len(statTrace) = scriptPos
           /\ \A i \in 1..Len(statTrace) :
                 statTrace[i] = <<MF, MF, WP, WP, MB>>[i]
           /\ fireTrace = IF scriptPos >= 4 THEN <<150, 155>>
                          ELSE IF scriptPos = 3 THEN <<150>>
                          ELSE <<>>

C4_Witness ==
    /\ stepsize = 150 /\ min_err = 14850 /\ max_err = 16050
    /\ scriptPos = Len(Script) /\ stat = MB

\* C5: a pass that feeds again the fix the reference point was set from
\* (same position, same quality, zero movement) leaves the state as it was
\* and calls no burst; the reference point stays, so this holds for every
\* further such pass.
C5_StationaryFix ==
    [][ (/\ pc = "gps" /\ lat = refLat /\ lon = refLon
         /\ lat' = lat /\ lon' = lon /\ iquality' = iquality)
        => (/\ stat' = stat /\ pc' = "gps" /\ nPnt' = nPnt
            /\ refLat' = refLat /\ refLon' = refLon) ]_vars

C5_Witness ==
    /\ pc = "gps" /\ nPnt >= 2 /\ lat = refLat /\ lon = refLon
    /\ iquality \in RTK /\ moveDist = 0 /\ fn = 0 /\ stat = MF

\* C6: with RTK sensitivity enabled, a pass whose fix quality is neither 4
\* nor 5 changes neither the state, nor the reference point, nor moveDist,
\* and calls no burst.
C6_NoRTKNoChange ==
    [][ (pc = "gps" /\ RTKsens /\ iquality' \notin RTK)
        => (/\ stat' = stat /\ refLat' = refLat /\ refLon' = refLon
            /\ moveDist' = moveDist /\ pc' = "gps" /\ nPnt' = nPnt) ]_vars

C6_Witness ==
    /\ pc = "gps" /\ RTKsens /\ iquality \notin RTK /\ fn = 0 /\ nPnt >= 1
    /\ moveDist # HaversineCm(lat, lon, refLat, refLon)

\* C7: when the burst start raised RadarBusyException k times and then
\* succeeded with the budget not yet spent, robustBurst made exactly k + 1
\* calls of Radar.burst, all with the same file name, reported no critical
\* failure and returned without an error.
C7_BusyThenSuccess ==
    started
        => /\ pc \in {"rb_tail", "rb_ret", "gps"}
           /\ exc = "none"
           /\ Len(burstCalls) = busyCount + 1
           /\ \A i \in 1..Len(burstCalls) : burstCalls[i] = fn
           /\ pc \in {"rb_ret", "gps"} => ~critical

C7_Witness ==
    pc = "rb_ret" /\ started /\ busyCount = 3 /\ Len(burstCalls) = 4

\* C8: a transport connection failure of the burst-start request is retried
\* by robustBurst and never reaches robustBurst's caller.
C8_ConnectionFailureRetried ==
    /\ exc # ConnErr
    /\ (lastOutcome = ConnErr /\ failedAt = "radar/burst") => pc # "crashed"

\* C9: a transport connection failure of the POST to radar/burst leaves
\* Radar.burst as RadarBusyException, never as a raw connection error.
C9_TransportFailureIsBusy ==
    failedAt = "radar/burst" => lastOutcome # ConnErr

\* C10: when no burst start succeeded within the retry budget, robustBurst
\* surfaces the timeout to its caller and has neither waited for results nor
\* requested a download for that point.
C10_TimeoutSurfaced ==
    (pc = "rb_ret" /\ ~started)
        => (exc # "none" /\ waited = 0 /\ dlReqs = 0)

\* C11: the number of '#PointInfo' lines equals the number of captured
\* points: a step writes one line exactly when it ends a robustBurst call
\* whose burst was started, and no step writes one for a point whose burst
\* never started.
C11_PointInfoPerCapture ==
    [][ /\ pointInfo' \in {pointInfo, pointInfo + 1}
        /\ (pointInfo' = pointInfo + 1)
               <=> (pc = "rb_tail" /\ started /\ pc' = "rb_ret") ]_vars

\* C12: the controller never issues a burst-start request while a burst it
\* started earlier has not been reported finished.
C12_OneInFlight ==
    [][ (Len(burstCalls') = Len(burstCalls) + 1 /\ failedAt' # "radar/config")
        => ~unreported ]_vars

AuthProtocolErrors ==
    {"InvalidAPIKeyException", "NotFoundException",
     "InternalRadarErrorException", "BadResponseException"}

\* C13: an InvalidAPIKeyException, NotFoundException,
\* InternalRadarErrorException or BadResponseException raised by the burst
\* start is not retried: the attempt that raised it is the last one of the
\* call and the exception leaves robustBurst.
C13_AuthProtocolNotRetried ==
    [][ /\ (lastOutcome' \in AuthProtocolErrors /\ pc = "rb_loop")
            => /\ pc' = "crashed" /\ exc' = lastOutcome'
               /\ attempts' = attempts
               /\ Len(burstCalls') = Len(burstCalls) + 1
        /\ (lastOutcome \in AuthProtocolErrors)
            => /\ pc = "crashed"
               /\ burstCalls' = burstCalls /\ pointInfo' = pointInfo ]_vars

C13_Witness ==
    /\ pc = "crashed" /\ exc = "InvalidAPIKeyException"
    /\ failedAt = "radar/burst" /\ Len(burstCalls) = 2 /\ busyCount = 1

\* C14: with DownloadFile enabled, a failure of the download or of the
\* archiving stays inside robustBurst: the '#PointInfo' line of the point is
\* written and robustBurst returns to its caller without an error.
C14_DownloadFailureContained ==
    (DownloadFile /\ dlResult \notin {"none", "ok"})
        => /\ pc \in {"rb_ret", "gps"}
           /\ exc = "none"
           /\ pointInfo = nPnt

C14_Witness ==
    /\ pc = "rb_ret" /\ DownloadFile /\ started /\ dlReqs = 1
    /\ dlResult = "OSError" /\ pointInfo = nPnt /\ nPnt = 2

\* C15: Radar.burst returns normally only when the POST to radar/burst was
\* answered 303; for another status it raises RadarBusyException when the
\* body carries an errorMessage and a different, burst-rejected error when
\* it carries none.
C15_BurstStatusErrors ==
    (op = "burst" /\ phase = "done")
        => /\ result = "ok" => call.p.status = VALID_BURST_STATUS_CODE
           /\ (/\ ConfigGet(call.g) = "ok" /\ SendRequest(call.p) = "ok"
               /\ call.p.status # VALID_BURST_STATUS_CODE)
              => IF call.p.errorMessage
                 THEN result = "RadarBusyException"
                 ELSE result \notin {"ok", "RadarBusyException"}

\* C16: a blocking Radar.results call returns a Results object only from a
\* poll that reported 'finished'; a poll that reported 'idle' raises
\* NoChirpStartedException; once the computed timeout has elapsed at the
\* loop test the call raises ResultsTimeoutException, which is raised in no
\* other way and never after a 'finished' report.
C16_ResultsOutcomes ==
    [][ (op = "results" /\ phase = "poll")
        => /\ result' = "Results" => lastStatus' = "finished"
           /\ lastStatus' = "idle" => result' = "NoChirpStartedException"
           /\ clock >= timeoutSeconds
                 => (result' = "ResultsTimeoutException" /\ phase' = "done")
           /\ result' = "ResultsTimeoutException"
                 => (clock >= timeoutSeconds /\ lastStatus' # "finished") ]_vars

C16_Witness ==
    /\ op = "results" /\ phase = "done"
    /\ result = "ResultsTimeoutException" /\ lastStatus = "busy"
    /\ clock >= timeoutSeconds

\* C17: while every poll reports 'busy', a blocking Radar.results call does
\* not poll forever: either some poll ends otherwise or the call raises
\* ResultsTimeoutException.
C17_BusyPollingEnds ==
    (op = "results" /\ phase = "poll")
        ~> (~onlyBusy \/ result = "ResultsTimeoutException")

C17_Witness ==
    /\ op = "results" /\ phase = "done" /\ onlyBusy
    /\ result = "ResultsTimeoutException" /\ timeoutSeconds = 126

\* C18: the results timeout is nTx * nRx * (nSubBursts + nAverages) *
\* nAttenuators * 2 + 30 seconds, nTx and nRx being the numbers of enabled
\* antennas of the configuration fetched when the call began; for nTx = 2,
\* nRx = 1, nSubBursts = 5, nAverages = 0, nAttenuators = 1 it is 50.
C18_TimeoutFormula ==
    (op = "results" /\ (phase = "poll" \/ lastStatus # "none"))
        => LET c == call.cfg
               nTx == Cardinality({i \in 1..8 : c.txAntenna[i] = 1})
               nRx == Cardinality({i \in 1..8 : c.rxAntenna[i] = 1})
           IN /\ timeoutSeconds
                    = nTx * nRx * (c.nSubBursts + c.nAverages)
                          * c.nAttenuators * 2 + 30
              /\ (/\ nTx = 2 /\ nRx = 1 /\ c.nSubBursts = 5
                  /\ c.nAverages = 0 /\ c.nAttenuators = 1)
                 => timeoutSeconds = 50

C18_Witness ==
    /\ op = "results" /\ phase = "done" /\ result = "Results"
    /\ timeoutSeconds = 50
    /\ call.cfg.txAntenna = <<1, 1, 0, 0, 0, 0, 0, 0>>
    /\ call.cfg.rxAntenna = <<1, 0, 0, 0, 0, 0, 0, 0>>
    /\ call.cfg.nSubBursts = 5 /\ call.cfg.nAverages = 0
    /\ call.cfg.nAttenuators = 1

\* what the caller of Config.set asked to change agrees with configuration c
RequestedMatches(a, c) ==
    /\ a.nAtts.kind = "num" => c.nAttenuators = a.nAtts.v
    /\ a.nBursts.kind = "num" => c.nSubBursts = a.nBursts.v
    /\ a.nAverages.kind = "num" => c.nAverages = a.nAverages.v
    /\ a.txAnt.kind # "None" => c.txAntenna = a.txAnt.v
    /\ a.rxAnt.kind # "None" => c.rxAntenna = a.rxAnt.v
    /\ a.userData.kind = "str" => c.userData = a.userData.v
    /\ a.rfAttnSet.kind = "num" => c.rfAttn[1] = a.rfAttnSet.v
    /\ a.rfAttnSet.kind = "list" => c.rfAttn = a.rfAttnSet.v
    /\ a.afGainSet.kind = "num" => c.afGain[1] = a.afGainSet.v
    /\ a.afGainSet.kind = "list" => c.afGain = a.afGainSet.v

\* C19: after a 200 reply to the config POST that readResponse accepted,
\* Config.set raises DidNotUpdateException when some field the caller asked
\* to change differs from what the device reports, and returns normally
\* only when every requested field matches.
C19_SetVerifiesEveryField ==
    (/\ op = "set" /\ phase = "done" /\ sent.posted
     /\ call.dev.p.status = 200
     /\ result \in {"ok", "DidNotUpdateException"})
        => /\ result = "ok" => RequestedMatches(call.a, cfgCache)
           /\ ~RequestedMatches(call.a, cfgCache)
                 => result = "DidNotUpdateException"

\* a txAnt / rxAnt argument that is exactly 8 flags, each 0 or 1, at least
\* one of them set
GoodMask(a) ==
    /\ Len(a.v) = 8
    /\ \A i \in 1..Len(a.v) : a.v[i] \in {0, 1}
    /\ \E i \in 1..Len(a.v) : a.v[i] = 1

\* C20: Config.set rejects with a validation error, before any POST, every
\* txAnt or rxAnt mask that is not exactly 8 flags each 0 or 1, and every
\* 8-flag mask with no flag set.
C20_BadMaskRejected ==
    (/\ op = "set" /\ phase = "done" /\ ConfigGet(call.g) = "ok"
     /\ \/ call.a.txAnt.kind # "None" /\ ~GoodMask(call.a.txAnt)
        \/ call.a.rxAnt.kind # "None" /\ ~GoodMask(call.a.rxAnt))
        => (result = "ValueError" /\ ~sent.posted)

\* the attenuator count a call of set goes by, as the caller sees it: the
\* nAtts argument when given, else the count the device holds
CountInEffect(c) ==
    IF c.a.nAtts.kind = "num" THEN c.a.nAtts.v ELSE c.cfg.nAttenuators

\* the arguments of a call of set other than those named in skip pass their
\* tests: numbers for the counts, a string for userData, nothing else given
OthersPass(a, skip) ==
    \A k \in SetParams \ skip :
        \/ a[k].kind = "None"
        \/ k \in {"nAtts", "nBursts", "nAverages"} /\ a[k].kind = "num"
        \/ k = "userData" /\ a[k].kind = "str"

\* the errors the tests of Config.set raise on an argument
ValidationErrors == {"ValueError", "KeyError"}

\* the first field a parameter of set fills in the POST
FirstField(k) == IF k = "rfAttnSet" THEN "rfAttn1" ELSE "afGain1"

FieldAt(k, i) ==
    (IF k = "rfAttnSet" THEN "rfAttn" ELSE "afGain") \o ToString(i)

\* C22: a sequence given as rfAttnSet / afGainSet is accepted only if its
\* length is the attenuator count in effect, else the call ends in a
\* validation error; of an accepted sequence exactly the positions holding a
\* number are posted as rfAttn<i> / afGain<i>, with that number.
C22_SequenceByPosition ==
    (op = "set" /\ phase = "done" /\ ConfigGet(call.g) = "ok")
        => \A k \in {"rfAttnSet", "afGainSet"} :
              call.a[k].kind \in {"list", "tuple"}
                 => LET q == call.a[k].v
                    IN /\ Len(q) # CountInEffect(call)
                             => (result \in ValidationErrors /\ ~sent.posted)
                       /\ sent.posted
                             => \A i \in 1..Len(q) :
                                   IF q[i] # NoneVal
                                   THEN /\ FieldAt(k, i) \in DOMAIN sent.data
                                        /\ sent.data[FieldAt(k, i)] = q[i]
                                   ELSE FieldAt(k, i) \notin DOMAIN sent.data

\* key k is exactly type<i> with i within the first n attenuators
ExactKey(type, k, n) ==
    k.head = "" /\ k.tail = "" /\ k.name = type /\ k.idx \in 1..n

\* C23: of a dictionary given as rfAttnSet / afGainSet, Config.set accepts
\* only keys that are exactly rfAttn<i> / afGain<i> with i within the
\* attenuator count in effect; any other key ends the call in an invalid-key
\* error before the POST.
C23_OnlyExactKeys ==
    (op = "set" /\ phase = "done" /\ ConfigGet(call.g) = "ok")
        => \A k \in {"rfAttnSet", "afGainSet"} :
              (/\ call.a[k].kind = "dict"
               /\ \E i \in 1..Len(call.a[k].v) :
                     ~ExactKey(IF k = "rfAttnSet" THEN "rfAttn" ELSE "afGain",
                               call.a[k].v[i].key, CountInEffect(call)))
                 => /\ ~sent.posted
                    /\ result \in ValidationErrors
                    /\ OthersPass(call.a, {k}) => result = "KeyError"

BadCount(x) == x.kind \notin {"None", "num"}
\* an antenna mask that is given and is not a tuple of 8 flags, each 0 or 1
BadMask(x) ==
    /\ x.kind # "None"
    /\ ~(/\ x.kind = "tuple" /\ Len(x.v) = 8
         /\ \A i \in 1..Len(x.v) : x.v[i] \in {0, 1})
\* an rfAttnSet / afGainSet that does not agree with n attenuators: a single
\* value with n # 1, a sequence of another length, a dictionary with a key
\* of another name or of an index outside 1..n
BadSet(type, x, n) ==
    \/ x.kind = "num" /\ n # 1
    \/ x.kind \in {"list", "tuple"} /\ Len(x.v) # n
    \/ /\ x.kind = "dict"
       /\ \E i \in 1..Len(x.v) :
             LET k == x.v[i].key
             IN k.head # "" \/ k.name # type \/ k.idx \notin 1..n
\* a userData that is given and is no string
BadUserData(x) == x.kind \notin {"None", "str"}

\* C25: a call of Config.set with an argument that fails validation raises
\* an error and issues no POST to radar/config.
C25_InvalidNeverPosted ==
    (/\ op = "set" /\ phase = "done" /\ ConfigGet(call.g) = "ok"
     /\ \/ BadCount(call.a.nAtts) \/ BadCount(call.a.nBursts)
        \/ BadCount(call.a.nAverages)
        \/ BadMask(call.a.txAnt) \/ BadMask(call.a.rxAnt)
        \/ BadSet("rfAttn", call.a.rfAttnSet, CountInEffect(call))
        \/ BadSet("afGain", call.a.afGainSet, CountInEffect(call))
        \/ BadUserData(call.a.userData))
        => /\ result \in ValidationErrors
           /\ ~sent.posted
           /\ \A i \in 1..Len(issued) : issued[i].method # "POST"

\* C26: Config.get raises BadResponseException when one of the eight
\* required keys is missing from the response, and when the length of rfAttn
\* or of afGain differs from nAttenuators; otherwise it returns with the
\* Config fields taken from the response.
C26_GetChecksResponse ==
    (/\ op = "get" /\ phase = "done"
     /\ SendRequest(call.g) = "ok" /\ call.g.status = 200)
        => IF \E k \in RequiredKeys : k \notin call.keys
           THEN result = "BadResponseException"
           ELSE IF \/ Len(call.rep.rfAttn) # call.rep.nAttenuators
                   \/ Len(call.rep.afGain) # call.rep.nAttenuators
           THEN result = "BadResponseException"
           ELSE result = "ok" /\ cfgCache = call.rep

C26_Witness ==
    /\ op = "get" /\ phase = "done" /\ result = "BadResponseException"
    /\ call.g.status = 200 /\ call.keys = RequiredKeys
    /\ call.rep.nAttenuators = 2 /\ Len(call.rep.rfAttn) = 1
    /\ Len(call.rep.afGain) = 2
    /\ issued = <<ConfigGetReq(apiKey, 1)>>

\* C27: Config.set, Radar.burst and Radar.trialBurst complete a GET of
\* radar/config before their POST: the GET is the first request, no POST is
\* issued when it fails, and the attenuator count the call is validated
\* with is the one just fetched, not the cached one.
C27_GetBeforePost ==
    (op \in {"set", "burst", "trial"} /\ phase = "done")
        => /\ Len(issued) >= 1
           /\ issued[1].method = "GET" /\ issued[1].route = "radar/config"
           /\ \A i \in 1..Len(issued) :
                 issued[i].method = "POST"
                    => (i > 1 /\ ConfigGet(call.g) = "ok")
           /\ ConfigGet(call.g) # "ok"
                 => (Len(issued) = 1 /\ result = ConfigGet(call.g))
           /\ (/\ op = "set" /\ ConfigGet(call.g) = "ok"
               /\ call.a.nAtts.kind = "None" /\ call.a.rfAttnSet.kind = "num"
               /\ OthersPass(call.a, {"rfAttnSet"}))
                 => (sent.posted <=> call.cfg.nAttenuators = 1)

C27_Witness ==
    /\ op = "set" /\ phase = "done" /\ result = "ok"
    /\ call.cached.nAttenuators = 2 /\ call.cfg.nAttenuators = 1
    /\ call.a.nAtts.kind = "None" /\ call.a.rfAttnSet = Num(25)
    /\ Len(issued) = 2
    /\ issued[1].method = "GET" /\ issued[2].method = "POST"
    /\ issued[2].data["rfAttn1"] = 25

\* C28: when the destination path exists, Data.download raises
\* FileExistsError, issues no request and writes nothing; a file that was
\* there is never written over.
C28_DownloadKeepsExisting ==
    (op = "download" /\ phase = "done")
        => /\ call.exists
                 => /\ result = "FileExistsError"
                    /\ issued = <<>>
                    /\ localFile = "kept"
           /\ localFile = "written" => ~call.exists

C28_Witness ==
    /\ op = "download" /\ phase = "done" /\ call.exists
    /\ SendRequest(call.r) = "ok"
    /\ result = "FileExistsError" /\ issued = <<>> /\ localFile = "kept"

\* s starts with the characters of pre
StartsWith(s, pre) == Len(s) >= Len(pre) /\ SubSeq(s, 1, Len(pre)) = pre

\* C29: for every string passed as root, the stored root starts with
\* 'http://' and does not end with '/'.
C29_RootNormalised ==
    (op = "root" /\ phase = "done" /\ call.root.kind = "str")
        => /\ StartsWith(apiRoot, HttpScheme)
           /\ apiRoot # <<>> /\ apiRoot[Len(apiRoot)] # "/"

\* the caller of a request handed over a data_obj holding a key
CallerKey ==
    op = "request" /\ call.arg.given /\ "apikey" \in DOMAIN call.arg.d

EnvelopeCodes == {401, 404, 500, 503}
EnvelopeError(code) ==
    CASE code = 401 -> "InvalidAPIKeyException"
      [] code = 404 -> "NotFoundException"
      [] code = 500 -> "InternalRadarErrorException"
      [] code = 503 -> "RadarBusyException"
CarriesEnvelope(r) ==
    /\ r.transport = "ok" /\ r.ctJson
    /\ r.errorCode \in EnvelopeCodes /\ r.errorMessage
C32_BudgetSpentRunContinues ==
    [][ /\ (pc = "rb_loop" /\ Retried(lastOutcome')
                /\ BudgetSpent(elapsed'))
            => (pc' = "rb_tail" /\ exc' = "none")
        /\ (pc = "rb_tail" /\ ~started)
            => (critical' /\ pc' = "rb_ret" /\ exc' = "none")
        /\ (pc = "rb_ret" /\ critical)
            => (pc' = "gps" /\ stat' = MF /\ exc' = "none") ]_vars
C32_Witness ==
    /\ pc = "gps" /\ caller = "trigger" /\ critical /\ ~started
    /\ stat = MF /\ exc = "none" /\ nPnt < MaxPnt

\* ------------------------------------------------------------------
\* C33: between two consecutive burst-start attempts of the retry loop
\* robustBurst sleeps: an attempt that is followed by another attempt adds
\* to the time slept.
C33_SleepBetweenAttempts ==
    [][(pc = "rb_loop" /\ pc' = "rb_loop") => waited' > waited]_vars

\* ------------------------------------------------------------------
\* C34: the reference point is replaced only after a burst was started:
\* when robustBurst returns to triggerApRES with the budget spent and no
\* burst started, refLat and refLon stay as they were.
C34_RefKeptAfterFailure ==
    [][(pc = "rb_ret" /\ caller = "trigger" /\ ~started)
           => (refLat' = refLat /\ refLon' = refLon)]_vars

\* ------------------------------------------------------------------
\* C35: with RTKsens False, a pass of the main loop whose displacement
\* lies strictly inside the band calls robustBurst whatever the quality
\* code of the fix.
C35_InsensitiveTriggers ==
    [][(pc = "gps" /\ ~RTKsens /\ refLat # NoRef
            /\ InBand(HaversineCm(lat', lon', refLat, refLon),
                      min_err, max_err))
           => pc' = "rb_begin"]_vars

\* ------------------------------------------------------------------
\* C36: robustBurst is called only in a pass whose displacement, computed
\* in that pass from its fix and the current reference point, lies strictly
\* inside the band, and the reference point after a burst is the fix at
\* which it was triggered; the in-band moveDist left from the trigger pass
\* never triggers again, also when the following fixes lack RTK quality.
C36_NoBurstFromStaleDistance ==
    [][ /\ (pc = "gps" /\ pc' = "rb_begin")
            => /\ moveDist' = HaversineCm(lat', lon', refLat, refLon)
               /\ InBand(moveDist', min_err, max_err)
               /\ refLat' = refLat /\ refLon' = refLon
        /\ (pc = "rb_ret" /\ pc' = "gps")
            => (refLat' = lat /\ refLon' = lon)
        /\ (pc = "gps" /\ ~RTKQuality(iquality')
                /\ moveDist' # HaversineCm(lat', lon', refLat, refLon))
            => pc' = "gps" ]_vars
C36_Witness ==
    /\ pc = "gps" /\ caller = "trigger" /\ nPnt >= 2 /\ nPnt < MaxPnt
    /\ ~RTKQuality(iquality) /\ stat = MF
    /\ InBand(moveDist, min_err, max_err)
    /\ moveDist # HaversineCm(lat, lon, refLat, refLon)

\* ------------------------------------------------------------------
\* C37: the POST to radar/config that ApRES_Set causes contains rfAttn<i>
\* and afGain<i> for every i in 1..n_attenuator with the values of
\* self.attenuators and self.gains, and a call that returns has found these
\* values in the reply of the device.
C37_SurveySetSendsAttenuation ==
    (op = "set" /\ phase = "done" /\ call.a = ApRES_SetArgs)
        => \A k \in {"rfAttnSet", "afGainSet"} :
              \A i \in 1..call.a.nAtts.v :
                 /\ sent.posted
                       => /\ FieldAt(k, i) \in DOMAIN sent.data
                          /\ sent.data[FieldAt(k, i)] = call.a[k].v[i]
                 /\ result = "ok"
                       => (IF k = "rfAttnSet" THEN cfgCache.rfAttn
                           ELSE cfgCache.afGain)[i] = call.a[k].v[i]

\* ------------------------------------------------------------------
\* C38: a Config.get that ends in an error (a required key missing, or the
\* lengths of rfAttn / afGain differing from nAttenuators) leaves the cached
\* configuration exactly as it was before the call.
C38_FailedGetKeepsCache ==
    (op = "get" /\ phase = "done" /\ result # "ok")
        => cfgCache = call.cached

\* ------------------------------------------------------------------
\* C39: Config.set either returns the updated configuration object or
\* raises; when the POST is answered, without error envelope, with a status
\* code that is neither 200 nor 400, the call ends in an error and not in
\* a normal return.
C39_UnexpectedStatusRaises ==
    (op = "set" /\ phase = "done")
        => /\ result # "None"
           /\ (/\ sent.posted /\ SendRequest(call.dev.p) = "ok"
               /\ call.dev.p.status \notin {200, 400})
                 => result # "ok"

\* ------------------------------------------------------------------
\* C40: Radar.burst called with a callback hands its wait flag to the
\* polling of the results: with wait false the polling runs in a new
\* thread, with wait true in the calling thread; in both cases no update
\* callback is installed and the callback is invoked once with the finished
\* results.
C40_BurstForwardsWait ==
    (op = "burstcb" /\ phase \in {"poll", "done"}
        /\ RadarBurst(call.g, call.p).outcome = "ok")
        => /\ resultsThread = ResultsThread(call.wait)
           /\ updateCallback = "None"
           /\ result = "Results" => callbackCalls = 1
====
